---- MODULE Spec2Model ----
(***************************************************************************)
(* ISA allowance engine (src/src/service/isa_allowance.py).                *)
(*                                                                         *)
(* calculate_isa_allowance_for_account is modelled as a small step         *)
(* machine: Begin (lines 21-32: tax-year window, limit table, filter,      *)
(* sort), one ProcessNext per iteration of the for-loop (lines 34-43) and  *)
(* Return (lines 45-51).  Two calls, one per client, run interleaved over  *)
(* the same caller-owned transaction list; each call keeps its locals in   *)
(* its own frame.  Monetary amounts are Decimal in the source; every       *)
(* amount used here is a whole number of pounds, so exact Decimal          *)
(* arithmetic coincides with integer arithmetic.                           *)
(***************************************************************************)
EXTENDS Integers, Sequences, FiniteSets, TLC

VARIABLES transactions, tax_year, frame

vars == <<transactions, tax_year, frame>>

(***************************************************************************)
(* Bounds of the model.                                                    *)
(***************************************************************************)
MaxLen == 3

(***************************************************************************)
(* Plain helpers (Python built-ins min, max, abs, sum).                    *)
(***************************************************************************)
Min(a, b) == IF a <= b THEN a ELSE b

Max(a, b) == IF a >= b THEN a ELSE b

Abs(a) == IF a < 0 THEN -a ELSE a

(***************************************************************************)
(* src/src/schema/isa_allowance.py: AccountType, Account, Transaction,     *)
(* IsaAllowance, NegativeBalanceError.                                     *)
(***************************************************************************)
AccountType == {"ISA", "Flexible_ISA", "Flexible_Lifetime_ISA"}

\* The category the error test builds an account with; it has no calculator.
Not_Implemented_ISA == "Not_Implemented_ISA"

Account(id, client_id, account_type) ==
    [id |-> id, client_id |-> client_id, account_type |-> account_type]

Transaction(account, transaction_date, amount) ==
    [account |-> account, transaction_date |-> transaction_date, amount |-> amount]

IsaAllowance(annual_allowance, remaining_allowance) ==
    [annual_allowance |-> annual_allowance, remaining_allowance |-> remaining_allowance]

NoError == [type |-> "None", balance |-> 0]

NegativeBalanceError(balance) == [type |-> "NegativeBalanceError", balance |-> balance]

\* NotImplementedError is raised for an undefined tax year (line 129) and for
\* a category without calculator (line 40); balance is unused.
NotImplementedError_tax_year == [type |-> "NotImplementedError: tax year", balance |-> 0]

NotImplementedError_account_type == [type |-> "NotImplementedError: account type", balance |-> 0]

\* datetime.date(year, 4, d) raises ValueError unless MINYEAR <= year <= MAXYEAR.
ValueError_date == [type |-> "ValueError: year out of range", balance |-> 0]

(***************************************************************************)
(* datetime.date: a calendar date, ordered lexicographically.              *)
(***************************************************************************)
date(year, month, day) == [year |-> year, month |-> month, day |-> day]

DateYearInRange(year) == year \in 1..9999

DateLess(a, b) ==
    \/ a.year < b.year
    \/ a.year = b.year /\ a.month < b.month
    \/ a.year = b.year /\ a.month = b.month /\ a.day < b.day

(***************************************************************************)
(* get_isa_limits_for_tax_year (lines 116-129).                            *)
(***************************************************************************)
IsaLimits2024 ==
    [t \in AccountType |-> IF t = "Flexible_Lifetime_ISA" THEN 4000 ELSE 20000]

NoLimits == [t \in AccountType |-> 0]

get_isa_limits_for_tax_year(year) ==
    IF year = 2024
    THEN [raised |-> FALSE, limits |-> IsaLimits2024]
    ELSE [raised |-> TRUE, limits |-> NoLimits]

(***************************************************************************)
(* filter_transactions_by_tax_year_and_client_id (lines 131-137) and the   *)
(* stable list.sort(key=transaction_date) of line 30.                      *)
(***************************************************************************)
\* Mutant: the window bounds are taken as inclusive.
FilterKeeps_Inclusive(client_id, txn, TY_START_DATE, TY_END_DATE) ==
    /\ ~DateLess(txn.transaction_date, TY_START_DATE)
    /\ ~DateLess(TY_END_DATE, txn.transaction_date)
    /\ txn.account.client_id = client_id

\* Mutant: the owner of the account is not compared.
FilterKeeps_AnyClient(client_id, txn, TY_START_DATE, TY_END_DATE) ==
    /\ DateLess(TY_START_DATE, txn.transaction_date)
    /\ DateLess(txn.transaction_date, TY_END_DATE)

FilterKeeps(client_id, txn, TY_START_DATE, TY_END_DATE) ==
    /\ DateLess(TY_START_DATE, txn.transaction_date)
    /\ DateLess(txn.transaction_date, TY_END_DATE)
    /\ txn.account.client_id = client_id

filter_transactions_by_tax_year_and_client_id(client_id, txns, TY_START_DATE, TY_END_DATE) ==
    SelectSeq(txns, LAMBDA txn : FilterKeeps(client_id, txn, TY_START_DATE, TY_END_DATE))

SortKeyLess(a, b) == DateLess(a.transaction_date, b.transaction_date)

\* Mutant: a transaction is placed before those of its own date.
RECURSIVE InsertStable_BeforeEqual(_, _)
InsertStable_BeforeEqual(sorted, txn) ==
    IF sorted = <<>> THEN <<txn>>
    ELSE IF ~SortKeyLess(sorted[Len(sorted)], txn)
         THEN Append(InsertStable_BeforeEqual(SubSeq(sorted, 1, Len(sorted) - 1), txn),
                     sorted[Len(sorted)])
         ELSE Append(sorted, txn)

RECURSIVE InsertStable(_, _)
InsertStable(sorted, txn) ==
    IF sorted = <<>> THEN <<txn>>
    ELSE IF SortKeyLess(txn, sorted[Len(sorted)])
         THEN Append(InsertStable(SubSeq(sorted, 1, Len(sorted) - 1), txn), sorted[Len(sorted)])
         ELSE Append(sorted, txn)

\* Mutant: the sort of line 30 is left out.
SortByDate_NoSort(txns) == txns

RECURSIVE SortByDate(_)
SortByDate(txns) ==
    IF txns = <<>> THEN <<>>
    ELSE InsertStable(SortByDate(SubSeq(txns, 1, Len(txns) - 1)), txns[Len(txns)])

(***************************************************************************)
(* ISA_CALCULATOR_DISPATCHER (lines 140-144) and the calculators           *)
(* (lines 53-114).                                                         *)
(***************************************************************************)
ISA_CALCULATOR_DISPATCHER ==
    [t \in AccountType |->
        CASE t = "ISA" -> "NonFlexibleIsaCalculator"
          [] t = "Flexible_ISA" -> "FlexibleIsaCalculator"
          [] t = "Flexible_Lifetime_ISA" -> "FlexibleLifetimeIsaCalculator"]

\* Mutant: the sub-allowance is initialised from the ISA entry of the table.
NewCalculator_SubAllowanceFromIsaLimit(clazz, isa_limit_mappings) ==
    [clazz |-> clazz,
     total_contributions |-> 0,
     flexible_contributions |-> 0,
     annual_isa_allowance |-> isa_limit_mappings["ISA"],
     INITIAL_LIFETIME_ALLOWANCE |-> isa_limit_mappings["Flexible_Lifetime_ISA"],
     remaining_lifetime_isa_allowance |-> isa_limit_mappings["ISA"],
     balance |-> 0]

\* IsaAllowanceCalculator.__init__
NewCalculator(clazz, isa_limit_mappings) ==
    [clazz |-> clazz,
     total_contributions |-> 0,
     flexible_contributions |-> 0,
     annual_isa_allowance |-> isa_limit_mappings["ISA"],
     INITIAL_LIFETIME_ALLOWANCE |-> isa_limit_mappings["Flexible_Lifetime_ISA"],
     remaining_lifetime_isa_allowance |-> isa_limit_mappings["Flexible_Lifetime_ISA"],
     balance |-> 0]

\* Mutant: the sign of the amount is not looked at.
NonFlexibleUpdateContributions_AnySign(self, txn) ==
    [self EXCEPT !.total_contributions = @ + txn.amount]

NonFlexibleUpdateContributions(self, txn) ==
    IF txn.amount > 0
    THEN [self EXCEPT !.total_contributions = @ + txn.amount]
    ELSE self

\* Mutant: withdrawals are not taken off the total.
FlexibleUpdateContributions_NoRestore(self, txn) ==
    IF txn.amount > 0
    THEN [self EXCEPT !.total_contributions = @ + txn.amount,
                      !.flexible_contributions = @ + txn.amount]
    ELSE self

FlexibleUpdateContributions(self, txn) ==
    [self EXCEPT !.total_contributions = @ + txn.amount,
                 !.flexible_contributions = IF txn.amount > 0 THEN @ + txn.amount ELSE @]

\* Mutant: a withdrawal gives sub-allowance back and leaves the total.
LifetimeUpdateContributions_TotalKept(self, txn) ==
    LET amount == txn.amount
        s1 == [self EXCEPT !.flexible_contributions = @ + amount]
    IN  IF amount > 0
        THEN LET allowed == Min(amount, s1.remaining_lifetime_isa_allowance)
             IN  [s1 EXCEPT !.remaining_lifetime_isa_allowance = @ - allowed,
                            !.total_contributions = @ + allowed]
        ELSE LET non_tax_free_amount == Max(0, s1.balance - s1.INITIAL_LIFETIME_ALLOWANCE)
                 restored == Min(Abs(amount),
                                 s1.INITIAL_LIFETIME_ALLOWANCE
                                     - s1.remaining_lifetime_isa_allowance)
                             - non_tax_free_amount
             IN  [s1 EXCEPT !.remaining_lifetime_isa_allowance = @ + restored]

LifetimeUpdateContributions(self, txn) ==
    LET amount == txn.amount
        s1 == [self EXCEPT !.flexible_contributions = @ + amount]
    IN  IF amount > 0
        THEN LET allowed == Min(amount, s1.remaining_lifetime_isa_allowance)
             IN  [s1 EXCEPT !.remaining_lifetime_isa_allowance = @ - allowed,
                            !.total_contributions = @ + allowed]
        ELSE LET non_tax_free_amount == Max(0, s1.balance - s1.INITIAL_LIFETIME_ALLOWANCE)
                 restored == Min(Abs(amount),
                                 s1.INITIAL_LIFETIME_ALLOWANCE
                                     - s1.remaining_lifetime_isa_allowance)
                             - non_tax_free_amount
             IN  [s1 EXCEPT !.remaining_lifetime_isa_allowance = @ + restored,
                            !.total_contributions = @ - restored]

update_contributions(self, txn) ==
    CASE self.clazz = "NonFlexibleIsaCalculator" -> NonFlexibleUpdateContributions(self, txn)
      [] self.clazz = "FlexibleIsaCalculator" -> FlexibleUpdateContributions(self, txn)
      [] self.clazz = "FlexibleLifetimeIsaCalculator" -> LifetimeUpdateContributions(self, txn)

\* IsaAllowanceCalculator.process_transaction: the calculator after the call,
\* and the exception the call raised, if any.
\* Mutant: the check looks at the balance before the transaction.
WouldOverdraw_OldBalance(self, invested_amount) == self.balance < 0

WouldOverdraw(self, invested_amount) == self.balance + invested_amount < 0

\* Mutant: the contribution is accounted before the balance is checked.
process_transaction_AccountsFirst(self, txn) ==
    LET invested_amount == txn.amount
        updated == update_contributions(self, txn)
    IN  IF WouldOverdraw(self, invested_amount)
        THEN [raised |-> TRUE, calc |-> updated,
              error |-> NegativeBalanceError(self.balance + invested_amount)]
        ELSE [raised |-> FALSE,
              calc |-> [updated EXCEPT !.balance = @ + invested_amount],
              error |-> NoError]

process_transaction(self, txn) ==
    LET invested_amount == txn.amount
    IN  IF WouldOverdraw(self, invested_amount)
        THEN [raised |-> TRUE, calc |-> self,
              error |-> NegativeBalanceError(self.balance + invested_amount)]
        ELSE [raised |-> FALSE,
              calc |-> [update_contributions(self, txn) EXCEPT !.balance = @ + invested_amount],
              error |-> NoError]

(***************************************************************************)
(* calculate_isa_allowance_for_account (lines 12-51): the frame of one     *)
(* call and the three steps of its body.                                   *)
(***************************************************************************)
NoResult == IsaAllowance(0, 0)

NewFrame(client_id) ==
    [client_id |-> client_id,
     pc |-> "start",
     isa_limits |-> NoLimits,
     client_transactions |-> <<>>,
     calculators |-> <<>>,
     i |-> 1,
     result |-> NoResult,
     error |-> NoError]

Raise(f, error) == [f EXCEPT !.pc = "raised", !.error = error]

\* Lines 21-32.
BeginCall(f, txns, year) ==
    IF ~(DateYearInRange(year) /\ DateYearInRange(year + 1))
    THEN Raise(f, ValueError_date)
    ELSE LET TAX_YEAR_START_DATE == date(year, 4, 6)
             TAX_YEAR_END_DATE == date(year + 1, 4, 5)
             lim == get_isa_limits_for_tax_year(year)
         IN  IF lim.raised
             THEN Raise(f, NotImplementedError_tax_year)
             ELSE [f EXCEPT
                     !.pc = "loop",
                     !.isa_limits = lim.limits,
                     !.client_transactions =
                         SortByDate(filter_transactions_by_tax_year_and_client_id(
                             f.client_id, txns, TAX_YEAR_START_DATE, TAX_YEAR_END_DATE)),
                     !.calculators = <<>>,
                     !.i = 1]

\* Mutant: a transaction of a category without calculator is passed over.
LoopBody_SkipsUnknownCategory(f) ==
    LET transaction == f.client_transactions[f.i]
        account_type == transaction.account.account_type
    IN  IF account_type \notin DOMAIN f.calculators
           /\ account_type \notin DOMAIN ISA_CALCULATOR_DISPATCHER
        THEN [f EXCEPT !.i = @ + 1]
        ELSE LET calcs ==
                     IF account_type \in DOMAIN f.calculators
                     THEN f.calculators
                     ELSE f.calculators @@
                          (account_type :> NewCalculator(
                               ISA_CALCULATOR_DISPATCHER[account_type], f.isa_limits))
                 r == process_transaction(calcs[account_type], transaction)
             IN  IF r.raised
                 THEN [Raise(f, r.error) EXCEPT
                         !.calculators = [calcs EXCEPT ![account_type] = r.calc]]
                 ELSE [f EXCEPT !.calculators = [calcs EXCEPT ![account_type] = r.calc],
                                !.i = @ + 1]

\* Mutant: the overdraft check nets the balances of all categories.
LoopBody_NetsCategories(f) ==
    LET transaction == f.client_transactions[f.i]
        account_type == transaction.account.account_type
    IN  IF account_type \notin DOMAIN f.calculators
           /\ account_type \notin DOMAIN ISA_CALCULATOR_DISPATCHER
        THEN Raise(f, NotImplementedError_account_type)
        ELSE LET calcs ==
                     IF account_type \in DOMAIN f.calculators
                     THEN f.calculators
                     ELSE f.calculators @@
                          (account_type :> NewCalculator(
                               ISA_CALCULATOR_DISPATCHER[account_type], f.isa_limits))
                 held(t) == IF t \in DOMAIN calcs THEN calcs[t].balance ELSE 0
                 pooled == held("ISA") + held("Flexible_ISA") + held("Flexible_Lifetime_ISA")
             IN  IF pooled + transaction.amount < 0
                 THEN [Raise(f, NegativeBalanceError(pooled + transaction.amount)) EXCEPT
                         !.calculators = calcs]
                 ELSE [f EXCEPT
                         !.calculators =
                             [calcs EXCEPT ![account_type] =
                                 [update_contributions(@, transaction) EXCEPT
                                     !.balance = @ + transaction.amount]],
                         !.i = @ + 1]

\* Mutant: an accepted amount is booked on the balance of every calculator.
LoopBody_BooksOnEveryCalculator(f) ==
    LET transaction == f.client_transactions[f.i]
        account_type == transaction.account.account_type
    IN  IF account_type \notin DOMAIN f.calculators
           /\ account_type \notin DOMAIN ISA_CALCULATOR_DISPATCHER
        THEN Raise(f, NotImplementedError_account_type)
        ELSE LET calcs ==
                     IF account_type \in DOMAIN f.calculators
                     THEN f.calculators
                     ELSE f.calculators @@
                          (account_type :> NewCalculator(
                               ISA_CALCULATOR_DISPATCHER[account_type], f.isa_limits))
                 r == process_transaction(calcs[account_type], transaction)
             IN  IF r.raised
                 THEN [Raise(f, r.error) EXCEPT
                         !.calculators = [calcs EXCEPT ![account_type] = r.calc]]
                 ELSE [f EXCEPT
                         !.calculators =
                             [t \in DOMAIN calcs |->
                                 IF t = account_type
                                 THEN r.calc
                                 ELSE [calcs[t] EXCEPT !.balance = @ + transaction.amount]],
                         !.i = @ + 1]

\* Lines 34-43, one iteration of the loop.
LoopBody(f) ==
    LET transaction == f.client_transactions[f.i]
        account_type == transaction.account.account_type
    IN  IF account_type \notin DOMAIN f.calculators
           /\ account_type \notin DOMAIN ISA_CALCULATOR_DISPATCHER
        THEN Raise(f, NotImplementedError_account_type)
        ELSE LET calcs ==
                     IF account_type \in DOMAIN f.calculators
                     THEN f.calculators
                     ELSE f.calculators @@
                          (account_type :> NewCalculator(
                               ISA_CALCULATOR_DISPATCHER[account_type], f.isa_limits))
                 r == process_transaction(calcs[account_type], transaction)
             IN  IF r.raised
                 THEN [Raise(f, r.error) EXCEPT
                         !.calculators = [calcs EXCEPT ![account_type] = r.calc]]
                 ELSE [f EXCEPT !.calculators = [calcs EXCEPT ![account_type] = r.calc],
                                !.i = @ + 1]

\* Mutant: one calculator's total is taken for the sum.
SumContributions_OneCalculator(calculators, keys) ==
    IF keys = {} THEN 0
    ELSE calculators[CHOOSE x \in keys : TRUE].total_contributions

RECURSIVE SumContributions(_, _)
SumContributions(calculators, keys) ==
    IF keys = {} THEN 0
    ELSE LET k == CHOOSE x \in keys : TRUE
         IN  calculators[k].total_contributions + SumContributions(calculators, keys \ {k})

\* Mutant: the floor at zero is forgotten.
RemainingAllowance_NoFloor(annual_isa_allowance, total_contributions) ==
    annual_isa_allowance - total_contributions

RemainingAllowance(annual_isa_allowance, total_contributions) ==
    Max(0, annual_isa_allowance - total_contributions)

\* Mutant: the allowance reported is the cap of the Lifetime category.
ReturnResult_LifetimeCap(f) ==
    LET annual_isa_allowance == f.isa_limits["Flexible_Lifetime_ISA"]
        total_contributions == SumContributions(f.calculators, DOMAIN f.calculators)
    IN  [f EXCEPT !.pc = "returned",
                  !.result = IsaAllowance(annual_isa_allowance,
                                 RemainingAllowance(annual_isa_allowance, total_contributions))]

\* Lines 45-51.
ReturnResult(f) ==
    LET annual_isa_allowance == f.isa_limits["ISA"]
        total_contributions == SumContributions(f.calculators, DOMAIN f.calculators)
    IN  [f EXCEPT !.pc = "returned",
                  !.result = IsaAllowance(annual_isa_allowance,
                                 RemainingAllowance(annual_isa_allowance, total_contributions))]

\* The whole call as a function of its arguments.
RECURSIVE RunLoop(_)
RunLoop(f) ==
    IF f.pc # "loop" THEN f
    ELSE IF f.i <= Len(f.client_transactions) THEN RunLoop(LoopBody(f))
    ELSE ReturnResult(f)

calculate_isa_allowance_for_account(client_id, txns, year) ==
    RunLoop(BeginCall(NewFrame(client_id), txns, year))

Outcome(f) == [pc |-> f.pc, result |-> f.result, error |-> f.error]

(***************************************************************************)
(* Inputs: the accounts, dates and transactions a caller passes in.        *)
(***************************************************************************)
nonflex_account == Account(1, 1, "ISA")

flex_account == Account(2, 1, "Flexible_ISA")

lifetime_account == Account(3, 1, "Flexible_Lifetime_ISA")

second_lifetime_account == Account(4, 1, "Flexible_Lifetime_ISA")

other_client_account == Account(5, 2, "Flexible_ISA")

unimplemented_account == Account(6, 1, Not_Implemented_ISA)

TaxYearStart == date(2024, 4, 6)

EarlyDate == date(2024, 4, 7)

LateDate == date(2024, 5, 10)

TaxYearEnd == date(2025, 4, 5)

TxUniverse ==
    { Transaction(nonflex_account, EarlyDate, 5000),
      Transaction(nonflex_account, LateDate, -5000),
      Transaction(flex_account, EarlyDate, 11000),
      Transaction(flex_account, EarlyDate, -10000),
      Transaction(lifetime_account, EarlyDate, 5500),
      Transaction(lifetime_account, LateDate, -2000),
      Transaction(lifetime_account, LateDate, -500),
      Transaction(lifetime_account, LateDate, 0),
      Transaction(second_lifetime_account, LateDate, 3000),
      Transaction(other_client_account, EarlyDate, 5000),
      Transaction(other_client_account, LateDate, -10000),
      Transaction(nonflex_account, TaxYearStart, -5000),
      Transaction(flex_account, TaxYearEnd, 5000),
      Transaction(unimplemented_account, LateDate, 2000) }

TaxYears == {2020, 2024, 9999}

Calls == {1, 2}

BoundedSeq(S, n) == UNION {[1..k -> S] : k \in 0..n}

(***************************************************************************)
(* The state machine.                                                      *)
(***************************************************************************)
Init ==
    /\ transactions \in BoundedSeq(TxUniverse, MaxLen)
    /\ tax_year \in TaxYears
    /\ frame = [c \in Calls |-> NewFrame(c)]

\* Mutant: the calculators are one dictionary shared by the calls, so a call
\* starts from those the first call left.
Begin_SharesCalculators(c) ==
    /\ frame[c].pc = "start"
    /\ frame' = [frame EXCEPT ![c] =
                    [BeginCall(frame[c], transactions, tax_year) EXCEPT
                        !.calculators = frame[1].calculators]]
    /\ UNCHANGED <<transactions, tax_year>>

\* Mutant: the sort of line 30 is applied to the caller's list.
Begin_SortsCallersList(c) ==
    /\ frame[c].pc = "start"
    /\ frame' = [frame EXCEPT ![c] = BeginCall(frame[c], transactions, tax_year)]
    /\ transactions' = SortByDate(transactions)
    /\ UNCHANGED tax_year

Begin(c) ==
    /\ frame[c].pc = "start"
    /\ frame' = [frame EXCEPT ![c] = BeginCall(frame[c], transactions, tax_year)]
    /\ UNCHANGED <<transactions, tax_year>>

\* Mutant: the calculators are one dictionary that every call reads and
\* writes.
ProcessNext_SharedCalculators(c) ==
    /\ frame[c].pc = "loop"
    /\ frame[c].i <= Len(frame[c].client_transactions)
    /\ frame' = [d \in Calls |->
                    IF d = c
                    THEN LoopBody(frame[c])
                    ELSE [frame[d] EXCEPT !.calculators = LoopBody(frame[c]).calculators]]
    /\ UNCHANGED <<transactions, tax_year>>

ProcessNext(c) ==
    /\ frame[c].pc = "loop"
    /\ frame[c].i <= Len(frame[c].client_transactions)
    /\ frame' = [frame EXCEPT ![c] = LoopBody(frame[c])]
    /\ UNCHANGED <<transactions, tax_year>>

Return(c) ==
    /\ frame[c].pc = "loop"
    /\ frame[c].i > Len(frame[c].client_transactions)
    /\ frame' = [frame EXCEPT ![c] = ReturnResult(frame[c])]
    /\ UNCHANGED <<transactions, tax_year>>

Next ==
    \E c \in Calls :
        \/ Begin(c)
        \/ ProcessNext(c)
        \/ Return(c)

Spec == Init /\ [][Next]_vars

(***************************************************************************)
(* The call made twice on the same arguments: both calls are for one       *)
(* client, and the second starts when the first has returned or raised.    *)
(***************************************************************************)
InitRerun ==
    /\ transactions \in BoundedSeq(TxUniverse, MaxLen)
    /\ tax_year \in TaxYears
    /\ \E client_id \in Calls : frame = [c \in Calls |-> NewFrame(client_id)]

NextRerun ==
    \/ Begin(1)
    \/ ProcessNext(1)
    \/ Return(1)
    \/ /\ frame[1].pc \in {"returned", "raised"}
       /\ \/ Begin(2)
          \/ ProcessNext(2)
          \/ Return(2)

SpecRerun == InitRerun /\ [][NextRerun]_vars

(***************************************************************************)
(* Vocabulary of the properties.                                           *)
(***************************************************************************)
Returned(c) == frame[c].pc = "returned"

RaisedIn(c) == frame[c].pc = "raised"

Finished(c) == Returned(c) \/ RaisedIn(c)

\* Both calls have ended; their frames no longer change.
AllFinished == \A c \in Calls : Finished(c)

HasCalculator(f, t) == t \in DOMAIN f.calculators

\* The balance the calculator of category t holds (0 before it is created).
BalanceOf(f, t) == IF HasCalculator(f, t) THEN f.calculators[t].balance ELSE 0

\* The call is about to process a transaction that its category's running
\* balance does not cover.
AboutToOverdraw(f) ==
    /\ f.pc = "loop"
    /\ f.i <= Len(f.client_transactions)
    /\ LET txn == f.client_transactions[f.i]
       IN  /\ txn.account.account_type \in AccountType
           /\ BalanceOf(f, txn.account.account_type) + txn.amount < 0

(***************************************************************************)
(* C1: every call for tax year 2024 that returns has                       *)
(* 0 <= remaining_allowance <= annual_allowance.                           *)
(***************************************************************************)
C1_RemainingWithinAllowance ==
    \A c \in Calls :
        Returned(c) =>
            /\ tax_year = 2024
            /\ 0 <= frame[c].result.remaining_allowance
            /\ frame[c].result.remaining_allowance <= frame[c].result.annual_allowance

\* A call returned although its counted contributions exceed the allowance.
C1_Witness ==
    \E c \in Calls :
        /\ Returned(c)
        /\ SumContributions(frame[c].calculators, DOMAIN frame[c].calculators)
               > frame[c].result.annual_allowance
        /\ frame[c].result.remaining_allowance = 0

C3_LifetimeCountsMinBalanceCap ==
    \A c \in Calls :
        HasCalculator(frame[c], "Flexible_Lifetime_ISA") =>
            LET calc == frame[c].calculators["Flexible_Lifetime_ISA"]
            IN  calc.total_contributions = Min(calc.balance, 4000)

(***************************************************************************)
(* The client/date criterion as the properties state it: the account's     *)
(* client is the requested one and the date lies strictly between 6 April  *)
(* of the tax year and 5 April of the next.  Dates are compared by a day   *)
(* number that grows with the calendar.                                    *)
(***************************************************************************)
DayNumber(d) == (d.year * 12 + d.month) * 31 + d.day

Qualifies(client_id, txn, year) ==
    /\ txn.account.client_id = client_id
    /\ DayNumber(txn.transaction_date) > DayNumber([year |-> year, month |-> 4, day |-> 6])
    /\ DayNumber(txn.transaction_date) < DayNumber([year |-> year + 1, month |-> 4, day |-> 5])

QualifyingOf(client_id, txns, year) ==
    SelectSeq(txns, LAMBDA txn : Qualifies(client_id, txn, year))

CountIn(txns, txn) == Cardinality({k \in DOMAIN txns : txns[k] = txn})

Shuffles(txns) ==
    {[k \in DOMAIN txns |-> txns[p[k]]] : p \in Permutations(DOMAIN txns)}

\* The transactions of one date, in list order.
OnDate(txns, d) == SelectSeq(txns, LAMBDA txn : txn.transaction_date = d)

\* Two lists of qualifying transactions hold, date by date, the same
\* transactions in the same order.
KeepsSameDateOrder(own, other) ==
    \A k \in DOMAIN own :
        OnDate(own, own[k].transaction_date) = OnDate(other, own[k].transaction_date)

(***************************************************************************)
(* C4 as stated: every permutation of the input list gives the outcome     *)
(* (result or error) the call on the list itself gives.                    *)
(***************************************************************************)
C4_AnyShuffleSameOutcome ==
    \A c \in Calls :
        AllFinished =>
            \A shuffled \in Shuffles(transactions) :
                Outcome(calculate_isa_allowance_for_account(
                            frame[c].client_id, shuffled, tax_year))
                    = Outcome(frame[c])

(***************************************************************************)
(* C4 amended: every permutation of the input list that keeps the relative *)
(* order of the requested client's in-window transactions sharing a date   *)
(* gives the same outcome.                                                 *)
(***************************************************************************)
C4_ShuffleKeepingTiesSameOutcome ==
    \A c \in Calls :
        AllFinished =>
            \A own \in {QualifyingOf(frame[c].client_id, transactions, tax_year)} :
                \A shuffled \in Shuffles(transactions) :
                    KeepsSameDateOrder(own, QualifyingOf(frame[c].client_id, shuffled, tax_year)) =>
                        Outcome(calculate_isa_allowance_for_account(
                                    frame[c].client_id, shuffled, tax_year))
                            = Outcome(frame[c])

\* A call returned on a list of which some shuffle keeps the same-date order
\* and yet hands the client's in-window transactions over in another order.
C4_Witness ==
    \E c \in Calls :
        /\ AllFinished
        /\ Returned(c)
        /\ frame[c].i > 2
        /\ \E shuffled \in Shuffles(transactions) :
               /\ KeepsSameDateOrder(
                      QualifyingOf(frame[c].client_id, transactions, tax_year),
                      QualifyingOf(frame[c].client_id, shuffled, tax_year))
               /\ QualifyingOf(frame[c].client_id, shuffled, tax_year)
                      # QualifyingOf(frame[c].client_id, transactions, tax_year)

(***************************************************************************)
(* C5: the transactions handed to the processing loop are exactly those    *)
(* whose account's client is the requested one and whose date is strictly  *)
(* after 6 April of tax_year and strictly before 5 April of tax_year + 1   *)
(* (a boundary date is excluded); only they are processed, and a call that *)
(* returns has processed every one of them.                                *)
(***************************************************************************)
C5_ProcessedIffClientAndStrictWindow ==
    \A c \in Calls :
        frame[c].pc \in {"loop", "returned"} \/ (RaisedIn(c) /\ tax_year = 2024) =>
            /\ \A k \in DOMAIN transactions :
                   CountIn(frame[c].client_transactions, transactions[k])
                       = IF Qualifies(frame[c].client_id, transactions[k], tax_year)
                         THEN CountIn(transactions, transactions[k])
                         ELSE 0
            /\ \A k \in DOMAIN frame[c].client_transactions :
                   CountIn(transactions, frame[c].client_transactions[k]) > 0
            /\ frame[c].i \in 1..(Len(frame[c].client_transactions) + 1)
            /\ Returned(c) => frame[c].i = Len(frame[c].client_transactions) + 1

\* A call processed a transaction although the list also holds transactions
\* of the same client dated on the first and on the last day of the window.
C5_Witness ==
    \E c \in Calls :
        /\ Returned(c)
        /\ frame[c].i > 1
        /\ \E k \in DOMAIN transactions :
               /\ transactions[k].account.client_id = frame[c].client_id
               /\ transactions[k].transaction_date \in {TaxYearStart, TaxYearEnd}

(***************************************************************************)
(* C6: the outcome of a call is the outcome of the call on the in-window   *)
(* transactions of the requested client alone, so two lists that agree on  *)
(* those (in the same relative order) have the same outcome whatever else  *)
(* they hold; when none qualifies, remaining_allowance = annual_allowance. *)
(***************************************************************************)
C6_OthersNeverInfluence ==
    \A c \in Calls :
        AllFinished =>
            LET own == QualifyingOf(frame[c].client_id, transactions, tax_year)
            IN  /\ Outcome(calculate_isa_allowance_for_account(
                               frame[c].client_id, own, tax_year))
                       = Outcome(frame[c])
                /\ (own = <<>> /\ tax_year = 2024) =>
                       /\ Returned(c)
                       /\ frame[c].result.remaining_allowance
                              = frame[c].result.annual_allowance

\* A call returned although the list holds a withdrawal, of another client or
\* dated outside the window, that no balance covers.
C6_Witness ==
    \E c \in Calls :
        /\ Returned(c)
        /\ frame[c].i > 1
        /\ \E k \in DOMAIN transactions :
               /\ ~Qualifies(frame[c].client_id, transactions[k], tax_year)
               /\ transactions[k].amount < 0

(***************************************************************************)
(* Amounts a call has processed so far, by category and by account.        *)
(***************************************************************************)
Processed(f) == SubSeq(f.client_transactions, 1, f.i - 1)

ProcessedOfCategory(f, t) ==
    SelectSeq(Processed(f), LAMBDA txn : txn.account.account_type = t)

ProcessedOfAccount(f, id) ==
    SelectSeq(Processed(f), LAMBDA txn : txn.account.id = id)

RECURSIVE SumOfAmounts(_)
SumOfAmounts(txns) ==
    IF txns = <<>> THEN 0 ELSE txns[1].amount + SumOfAmounts(Tail(txns))

RECURSIVE SumOfPositiveAmounts(_)
SumOfPositiveAmounts(txns) ==
    IF txns = <<>> THEN 0
    ELSE (IF txns[1].amount > 0 THEN txns[1].amount ELSE 0) + SumOfPositiveAmounts(Tail(txns))

TotalOf(f, t) == IF HasCalculator(f, t) THEN f.calculators[t].total_contributions ELSE 0

\* The step of call c accepted a withdrawal of category t.
AcceptedWithdrawal(c, t) ==
    /\ frame[c].pc = "loop"
    /\ frame'[c].pc = "loop"
    /\ frame'[c].i = frame[c].i + 1
    /\ frame[c].client_transactions[frame[c].i].account.account_type = t
    /\ frame[c].client_transactions[frame[c].i].amount < 0

(***************************************************************************)
(* C7: the Standard (ISA) calculator's total_contributions is the sum of   *)
(* the positive amounts it processed; it never decreases; an accepted      *)
(* withdrawal lowers the balance and leaves total_contributions, and the   *)
(* sum the remaining allowance is computed from, unchanged.                *)
(***************************************************************************)
C7_StandardCountsPositiveOnly ==
    [][\A c \in Calls :
          /\ HasCalculator(frame'[c], "ISA") =>
                 /\ TotalOf(frame'[c], "ISA")
                        = SumOfPositiveAmounts(ProcessedOfCategory(frame'[c], "ISA"))
                 /\ BalanceOf(frame'[c], "ISA")
                        = SumOfAmounts(ProcessedOfCategory(frame'[c], "ISA"))
          /\ TotalOf(frame'[c], "ISA") >= TotalOf(frame[c], "ISA")
          /\ AcceptedWithdrawal(c, "ISA") =>
                 /\ BalanceOf(frame'[c], "ISA") < BalanceOf(frame[c], "ISA")
                 /\ TotalOf(frame'[c], "ISA") = TotalOf(frame[c], "ISA")
                 /\ SumContributions(frame'[c].calculators, DOMAIN frame'[c].calculators)
                        = SumContributions(frame[c].calculators, DOMAIN frame[c].calculators)
      ]_vars

\* The Standard calculator accepted a withdrawal after a contribution.
C7_Witness ==
    \E c \in Calls :
        /\ HasCalculator(frame[c], "ISA")
        /\ frame[c].calculators["ISA"].total_contributions = 5000
        /\ frame[c].calculators["ISA"].balance = 0
        /\ Len(ProcessedOfCategory(frame[c], "ISA")) = 2

(***************************************************************************)
(* C8: the Flexible calculator's total_contributions is the sum of all the *)
(* amounts it processed, which is its running balance and so >= 0; an      *)
(* accepted withdrawal of w lowers total_contributions by exactly w, also  *)
(* from a total above the 20,000 allowance.                                *)
(***************************************************************************)
C8_FlexibleCountsEverySignedAmount ==
    [][\A c \in Calls :
          /\ HasCalculator(frame'[c], "Flexible_ISA") =>
                 /\ TotalOf(frame'[c], "Flexible_ISA")
                        = SumOfAmounts(ProcessedOfCategory(frame'[c], "Flexible_ISA"))
                 /\ TotalOf(frame'[c], "Flexible_ISA") = BalanceOf(frame'[c], "Flexible_ISA")
                 /\ TotalOf(frame'[c], "Flexible_ISA") >= 0
          /\ AcceptedWithdrawal(c, "Flexible_ISA") =>
                 TotalOf(frame'[c], "Flexible_ISA")
                     = TotalOf(frame[c], "Flexible_ISA")
                           + frame[c].client_transactions[frame[c].i].amount
      ]_vars

\* A withdrawal of 10,000 was taken off a Flexible total of 22,000.
C8_Witness ==
    \E c \in Calls :
        /\ HasCalculator(frame[c], "Flexible_ISA")
        /\ frame[c].calculators["Flexible_ISA"].total_contributions = 12000
        /\ frame[c].i = 4
        /\ frame[c].client_transactions[3].amount = -10000
        /\ frame[c].client_transactions[3].account.account_type = "Flexible_ISA"

(***************************************************************************)
(* The contribution a date-ordered list of transactions yields under each  *)
(* category's rule, as the properties state the rules.                     *)
(***************************************************************************)
RECURSIVE LifetimeRule(_, _, _, _)
LifetimeRule(txns, counted, sub_allowance, balance) ==
    IF txns = <<>> THEN counted
    ELSE LET a == txns[1].amount
             step == IF a > 0
                     THEN Min(a, sub_allowance)
                     ELSE -(Min(Abs(a), 4000 - sub_allowance) - Max(0, balance - 4000))
         IN  LifetimeRule(Tail(txns), counted + step, sub_allowance - step, balance + a)

RuleYield(t, txns) ==
    CASE t = "ISA" -> SumOfPositiveAmounts(txns)
      [] t = "Flexible_ISA" -> SumOfAmounts(txns)
      [] t = "Flexible_Lifetime_ISA" -> LifetimeRule(txns, 0, 4000, 0)

AccountsOf(txns) == {txns[k].account : k \in DOMAIN txns}

\* Each account's own transactions under its category's rule, summed.
RECURSIVE YieldOfAccounts(_, _)
YieldOfAccounts(f, accounts) ==
    IF accounts = {} THEN 0
    ELSE LET acc == CHOOSE a \in accounts : TRUE
         IN  RuleYield(acc.account_type, ProcessedOfAccount(f, acc.id))
                 + YieldOfAccounts(f, accounts \ {acc})

YieldPerAccount(f) == YieldOfAccounts(f, AccountsOf(Processed(f)))

\* Each category's transactions, pooled over the accounts, under its rule.
YieldPerCategory(f) ==
    RuleYield("ISA", ProcessedOfCategory(f, "ISA"))
        + RuleYield("Flexible_ISA", ProcessedOfCategory(f, "Flexible_ISA"))
        + RuleYield("Flexible_Lifetime_ISA", ProcessedOfCategory(f, "Flexible_Lifetime_ISA"))

C10_OtherYearAlwaysUnsupportedTaxYear ==
    \A c \in Calls :
        (tax_year # 2024 /\ frame[c].pc # "start") =>
            /\ RaisedIn(c)
            /\ frame[c].error = NotImplementedError_tax_year
            /\ frame[c].result = NoResult
            /\ frame[c].calculators = <<>>
            /\ Processed(frame[c]) = <<>>

(***************************************************************************)
(* C11: a transaction whose category has no calculator makes the call fail *)
(* with the unsupported-category error when it is reached in processing    *)
(* order: the error is raised if and only if the transaction passed the    *)
(* client/date filter and nothing before it raised; the transactions after *)
(* it are not processed and no result is returned.                         *)
(***************************************************************************)
HasNoCalculatorClass(txn) == txn.account.account_type \notin AccountType

C11_UnknownCategoryFailsFast ==
    \A c \in Calls :
        /\ \A k \in DOMAIN Processed(frame[c]) : ~HasNoCalculatorClass(Processed(frame[c])[k])
        /\ frame[c].error = NotImplementedError_account_type =>
               /\ RaisedIn(c)
               /\ frame[c].result = NoResult
               /\ frame[c].i \in DOMAIN frame[c].client_transactions
               /\ HasNoCalculatorClass(frame[c].client_transactions[frame[c].i])
               /\ Qualifies(frame[c].client_id,
                            frame[c].client_transactions[frame[c].i], tax_year)
        /\ (Finished(c) /\ tax_year = 2024) =>
               \A k \in DOMAIN transactions :
                   (/\ HasNoCalculatorClass(transactions[k])
                    /\ Qualifies(frame[c].client_id, transactions[k], tax_year)) =>
                       /\ RaisedIn(c)
                       /\ \/ frame[c].error = NotImplementedError_account_type
                          \/ /\ frame[c].error.type = "NegativeBalanceError"
                             /\ DayNumber(frame[c].client_transactions[frame[c].i].transaction_date)
                                    <= DayNumber(transactions[k].transaction_date)

\* A call accepted a transaction, then met one of a category without
\* calculator and failed, leaving a later transaction unprocessed.
C11_Witness ==
    \E c \in Calls :
        /\ frame[c].error = NotImplementedError_account_type
        /\ frame[c].i = 2
        /\ Len(frame[c].client_transactions) = 3

(***************************************************************************)
(* The Lifetime calculator of a call.                                      *)
(***************************************************************************)
HasLifetime(f) == HasCalculator(f, "Flexible_Lifetime_ISA")

Lifetime(f) == f.calculators["Flexible_Lifetime_ISA"]

(***************************************************************************)
(* C12: in every state of the Lifetime calculator the remaining            *)
(* sub-allowance (remaining_lifetime_isa_allowance) is >= 0.               *)
(***************************************************************************)
C12_SubAllowanceNeverNegative ==
    \A c \in Calls :
        HasLifetime(frame[c]) => Lifetime(frame[c]).remaining_lifetime_isa_allowance >= 0

(***************************************************************************)
(* C13: in every state of the Lifetime calculator the remaining            *)
(* sub-allowance is <= its initial cap of 4,000.                           *)
(***************************************************************************)
C13_SubAllowanceNeverAboveCap ==
    \A c \in Calls :
        HasLifetime(frame[c]) =>
            /\ Lifetime(frame[c]).INITIAL_LIFETIME_ALLOWANCE = 4000
            /\ Lifetime(frame[c]).remaining_lifetime_isa_allowance <= 4000

\* A Lifetime withdrawal has given sub-allowance back.
C13_Witness ==
    \E c \in Calls :
        /\ HasLifetime(frame[c])
        /\ frame[c].i = 3
        /\ frame[c].client_transactions[1].amount = 3000
        /\ frame[c].client_transactions[2].amount = -2000
        /\ Lifetime(frame[c]).remaining_lifetime_isa_allowance = 3000

(***************************************************************************)
(* C14: the filtered transactions are processed in non-decreasing date     *)
(* order, and transactions of one date in the order they have in the       *)
(* original input list.                                                    *)
(***************************************************************************)
C14_DateOrderStable ==
    \A c \in Calls :
        frame[c].pc \in {"loop", "returned"} \/ (RaisedIn(c) /\ tax_year = 2024) =>
            \A ct \in {frame[c].client_transactions} :
                /\ \A j, k \in DOMAIN ct :
                       j < k => DayNumber(ct[j].transaction_date)
                                    <= DayNumber(ct[k].transaction_date)
                /\ \A own \in {QualifyingOf(frame[c].client_id, transactions, tax_year)} :
                       /\ Len(own) = Len(ct)
                       /\ KeepsSameDateOrder(own, ct)
                /\ Processed(frame[c]) = SubSeq(ct, 1, Len(Processed(frame[c])))

\* The list was given later date first and holds two different transactions
\* of one date, and the call has processed them all.
C14_Witness ==
    \E c \in Calls :
        /\ Returned(c)
        /\ frame[c].client_transactions
               # QualifyingOf(frame[c].client_id, transactions, tax_year)
        /\ \E j, k \in DOMAIN frame[c].client_transactions :
               /\ j < k
               /\ frame[c].client_transactions[j] # frame[c].client_transactions[k]
               /\ frame[c].client_transactions[j].transaction_date
                      = frame[c].client_transactions[k].transaction_date

(***************************************************************************)
(* The remaining sub-allowance of a call's Lifetime calculator; a call     *)
(* that has not met a Lifetime transaction yet has the whole cap left.     *)
(***************************************************************************)
SubAllowanceOf(f) ==
    IF HasLifetime(f) THEN Lifetime(f).remaining_lifetime_isa_allowance ELSE 4000

\* The step of call c accepted a transaction of category t.
Accepted(c, t) ==
    /\ frame[c].pc = "loop"
    /\ frame'[c].pc = "loop"
    /\ frame'[c].i = frame[c].i + 1
    /\ frame[c].client_transactions[frame[c].i].account.account_type = t

AmountAt(f) == f.client_transactions[f.i].amount

(***************************************************************************)
(* C15: an accepted Lifetime withdrawal restores a value >= 0: it never    *)
(* lowers the remaining sub-allowance, never raises the counted total, and *)
(* never lowers the remaining allowance the call would return.             *)
(***************************************************************************)
C15_WithdrawalNeverRestoresNegative ==
    [][\A c \in Calls :
          AcceptedWithdrawal(c, "Flexible_Lifetime_ISA") =>
              /\ SubAllowanceOf(frame'[c]) >= SubAllowanceOf(frame[c])
              /\ TotalOf(frame'[c], "Flexible_Lifetime_ISA")
                     <= TotalOf(frame[c], "Flexible_Lifetime_ISA")
              /\ SumContributions(frame'[c].calculators, DOMAIN frame'[c].calculators)
                     <= SumContributions(frame[c].calculators, DOMAIN frame[c].calculators)
      ]_vars

(***************************************************************************)
(* C16: two calls with the same client_id, transaction list and tax year   *)
(* end the same way, with the same IsaAllowance or the same error, and     *)
(* that end is the one the arguments alone determine: nothing of the first *)
(* call is left for the second.                                            *)
(***************************************************************************)
C16_RerunSameOutcome ==
    /\ \A c, d \in Calls :
           (/\ Finished(c)
            /\ Finished(d)
            /\ frame[c].client_id = frame[d].client_id) =>
               Outcome(frame[c]) = Outcome(frame[d])
    /\ \A c \in Calls :
           Finished(c) =>
               frame[c] = calculate_isa_allowance_for_account(
                              frame[c].client_id, transactions, tax_year)

\* The call was repeated for one client after it had returned with a
\* calculator for each of the three categories.
C16_Witness ==
    /\ frame[1].client_id = frame[2].client_id
    /\ Returned(1)
    /\ Returned(2)
    /\ DOMAIN frame[1].calculators = AccountType
    /\ frame[2].result.remaining_allowance > 0

(***************************************************************************)
(* C17: every call for tax year 2024 that returns reports an               *)
(* annual_allowance of 20,000, the Standard category's cap, whatever       *)
(* categories it processed.                                                *)
(***************************************************************************)
C17_AnnualAllowanceIsStandardCap ==
    \A c \in Calls :
        Returned(c) =>
            /\ tax_year = 2024
            /\ frame[c].result.annual_allowance = 20000
            /\ frame[c].result.annual_allowance = IsaLimits2024["ISA"]

\* A call that processed Lifetime transactions only has returned.
C17_Witness ==
    \E c \in Calls :
        /\ Returned(c)
        /\ DOMAIN frame[c].calculators = {"Flexible_Lifetime_ISA"}
        /\ Len(frame[c].client_transactions) >= 2

(***************************************************************************)
(* C18: when a transaction of any category would take the balance below    *)
(* zero, the call raises NegativeBalanceError carrying the attempted       *)
(* balance (previous balance + amount, negative), and the calculator's     *)
(* balance, total_contributions and remaining sub-allowance are what they  *)
(* were before that transaction.                                           *)
(***************************************************************************)
C18_OverdraftLeavesCalculatorUntouched ==
    [][\A c \in Calls :
          (AboutToOverdraw(frame[c]) /\ frame'[c] # frame[c]) =>
              \A t \in {frame[c].client_transactions[frame[c].i].account.account_type} :
                  /\ frame'[c].error
                         = NegativeBalanceError(BalanceOf(frame[c], t) + AmountAt(frame[c]))
                  /\ frame'[c].error.balance < 0
                  /\ frame'[c].i = frame[c].i
                  /\ BalanceOf(frame'[c], t) = BalanceOf(frame[c], t)
                  /\ TotalOf(frame'[c], t) = TotalOf(frame[c], t)
                  /\ HasCalculator(frame'[c], t)
                  /\ frame'[c].calculators[t].remaining_lifetime_isa_allowance
                         = IF HasCalculator(frame[c], t)
                           THEN frame[c].calculators[t].remaining_lifetime_isa_allowance
                           ELSE 4000
                  /\ \A u \in DOMAIN frame[c].calculators :
                         frame'[c].calculators[u] = frame[c].calculators[u]
      ]_vars

\* A Lifetime withdrawal was refused after a contribution and a withdrawal
\* had been accepted.
C18_Witness ==
    \E c \in Calls :
        /\ RaisedIn(c)
        /\ frame[c].error = NegativeBalanceError(-1000)
        /\ frame[c].i = 3
        /\ frame[c].client_transactions[3].account.account_type = "Flexible_Lifetime_ISA"
        /\ HasLifetime(frame[c])
        /\ Lifetime(frame[c]).balance = 1000
        /\ Lifetime(frame[c]).remaining_lifetime_isa_allowance = 3000

(***************************************************************************)
(* C19: an accepted Lifetime contribution raises the counted total by      *)
(* min(amount, remaining sub-allowance) and lowers the sub-allowance by    *)
(* the same quantity, which lies between 0 and the amount; so it never     *)
(* lowers the counted total.                                               *)
(***************************************************************************)
C19_ContributionCountsClampedAmount ==
    [][\A c \in Calls :
          (Accepted(c, "Flexible_Lifetime_ISA") /\ AmountAt(frame[c]) > 0) =>
              \A allowed \in {Min(AmountAt(frame[c]), SubAllowanceOf(frame[c]))} :
                  /\ TotalOf(frame'[c], "Flexible_Lifetime_ISA")
                         = TotalOf(frame[c], "Flexible_Lifetime_ISA") + allowed
                  /\ SubAllowanceOf(frame'[c]) = SubAllowanceOf(frame[c]) - allowed
                  /\ 0 <= allowed
                  /\ allowed <= AmountAt(frame[c])
      ]_vars

(***************************************************************************)
(* C20: an accepted zero-amount transaction on a Lifetime account leaves   *)
(* total_contributions, the remaining sub-allowance and the balance        *)
(* unchanged.                                                              *)
(***************************************************************************)
C20_ZeroAmountChangesNothing ==
    [][\A c \in Calls :
          (Accepted(c, "Flexible_Lifetime_ISA") /\ AmountAt(frame[c]) = 0) =>
              /\ TotalOf(frame'[c], "Flexible_Lifetime_ISA")
                     = TotalOf(frame[c], "Flexible_Lifetime_ISA")
              /\ SubAllowanceOf(frame'[c]) = SubAllowanceOf(frame[c])
              /\ BalanceOf(frame'[c], "Flexible_Lifetime_ISA")
                     = BalanceOf(frame[c], "Flexible_Lifetime_ISA")
      ]_vars

(***************************************************************************)
(* C21: no step of a call, whether the call goes on to return or to raise, *)
(* changes the caller's transaction list or the tax year: the list holds   *)
(* the same transactions in the same order throughout.                     *)
(***************************************************************************)
C21_InputsNeverMutated ==
    [][/\ transactions' = transactions
       /\ tax_year' = tax_year
      ]_vars

\* A call has returned whose own list is shorter than the caller's list and
\* in another order, and the other call has raised.
C21_Witness ==
    \E c, d \in Calls :
        /\ Returned(c)
        /\ RaisedIn(d)
        /\ Len(frame[c].client_transactions) = 2
        /\ Len(transactions) = 3
        /\ frame[c].client_transactions
               # QualifyingOf(frame[c].client_id, transactions, tax_year)

(***************************************************************************)
(* A call run alone on the arguments of call c, taken as far as call c has *)
(* got.                                                                    *)
(***************************************************************************)
RECURSIVE StepsAlone(_, _)
StepsAlone(f, n) ==
    IF n = 0 \/ f.pc # "loop" THEN f ELSE StepsAlone(LoopBody(f), n - 1)

RunAlone(c) ==
    IF frame[c].pc = "start"
    THEN NewFrame(frame[c].client_id)
    ELSE IF frame[c].pc = "loop"
         THEN StepsAlone(BeginCall(NewFrame(frame[c].client_id), transactions, tax_year),
                         frame[c].i - 1)
         ELSE calculate_isa_allowance_for_account(frame[c].client_id, transactions, tax_year)

(***************************************************************************)
(* C22: when the steps of two calls interleave in any way, each call holds *)
(* at every step the calculators, and ends with the result or error, that  *)
(* it has when run alone: no calculator is shared between calls.           *)
(***************************************************************************)
C22_InterleavedCallsRunAsAlone ==
    \A c \in Calls :
        frame[c] = RunAlone(c)

\* Both calls are inside their loops, each with a transaction accepted and
\* one still to process.
C22_Witness ==
    /\ \A c \in Calls :
           /\ frame[c].pc = "loop"
           /\ frame[c].i = 2
           /\ frame[c].calculators # <<>>
    /\ Len(frame[1].client_transactions) = 2
    /\ frame[1].client_id # frame[2].client_id

(***************************************************************************)
(* C23: in every state of the Lifetime calculator total_contributions +    *)
(* remaining_lifetime_isa_allowance = 4,000, the initial sub-allowance     *)
(* cap.                                                                    *)
(***************************************************************************)
C23_CountedPlusRemainingIsCap ==
    \A c \in Calls :
        HasLifetime(frame[c]) =>
            /\ Lifetime(frame[c]).total_contributions
                   + Lifetime(frame[c]).remaining_lifetime_isa_allowance = 4000
            /\ Lifetime(frame[c]).INITIAL_LIFETIME_ALLOWANCE = 4000

\* A contribution above the cap and a withdrawal have been accepted, and the
\* counted total stands above the cap.
C23_Witness ==
    \E c \in Calls :
        /\ HasLifetime(frame[c])
        /\ frame[c].i = 3
        /\ Lifetime(frame[c]).total_contributions = 5000
        /\ Lifetime(frame[c]).remaining_lifetime_isa_allowance = -1000
        /\ Lifetime(frame[c]).balance = 5000

C25_OnlyOwnCategoryChanges ==
    [][\A c \in Calls :
          (/\ frame[c].pc = "loop"
           /\ frame[c].i <= Len(frame[c].client_transactions)
           /\ frame'[c] # frame[c]) =>
              \A own \in {frame[c].client_transactions[frame[c].i].account.account_type} :
                  /\ DOMAIN frame'[c].calculators \subseteq DOMAIN frame[c].calculators \cup {own}
                  /\ \A t \in DOMAIN frame[c].calculators \ {own} :
                         /\ HasCalculator(frame'[c], t)
                         /\ frame'[c].calculators[t] = frame[c].calculators[t]
                  /\ own \in {"ISA", "Flexible_ISA"} =>
                         /\ SubAllowanceOf(frame'[c]) = SubAllowanceOf(frame[c])
                         /\ frame'[c].calculators[own].remaining_lifetime_isa_allowance = 4000
      ]_vars

\* A Standard and a Flexible contribution have been accepted after a
\* Lifetime contribution that used the whole sub-allowance.
C25_Witness ==
    \E c \in Calls :
        /\ frame[c].i = 4
        /\ DOMAIN frame[c].calculators = AccountType
        /\ frame[c].client_transactions[1].account.account_type = "Flexible_Lifetime_ISA"
        /\ Lifetime(frame[c]).remaining_lifetime_isa_allowance = 0
        /\ Lifetime(frame[c]).balance = 5500
        /\ frame[c].calculators["ISA"].balance = 5000
        /\ frame[c].calculators["Flexible_ISA"].balance = 11000

====
